---- MODULE Spec2Model ----
(***************************************************************************)
(* Model of configure_ssids.py: the sequential run of main() against the   *)
(* Meraki dashboard (organization networks, devices, per-network SSID      *)
(* slots) and the console.  Strings the program inspects character by      *)
(* character (SSID names, console input) are sequences of one-character    *)
(* strings; strings it only compares for equality are TLA+ strings.        *)
(***************************************************************************)
EXTENDS Integers, Sequences, FiniteSets, TLC

VARIABLES
    NET_NAMES,          \* json.loads(os.getenv("NETWORK_NAMES"))
    devices,            \* dashboard side: the organization's devices
    server,             \* dashboard side: net id -> slot number -> SSID record
    pc,                 \* position of main()
    i,                  \* 1-based position of the for loop main() is in
    net_id_to_name,     \* dict, as the sequence of its <<key, value>> items
    wireless_networks,  \* list of network records
    all_ssids,          \* list of SSID record objects
    ssid_dict,          \* dict name -> position in all_ssids of the SAME object
    network_to_ssids,   \* dict net id -> set of SSID names
    todo,               \* names of the set being iterated that are still to come
    psk_ssids,          \* list of {name, number, net_id}
    ssid_index,         \* the console line read at lines 247/261
    ssid_int,           \* ssid_index after int() at line 249
    new_psk,            \* the console line read at line 254
    prompts,            \* number of index prompts answered so far
    calls,              \* every dashboard call issued, in order
    out                 \* what the program printed, in order

vars == <<NET_NAMES, devices, server, pc, i, net_id_to_name, wireless_networks,
          all_ssids, ssid_dict, network_to_ssids, todo, psk_ssids, ssid_index,
          ssid_int, new_psk, prompts, calls, out>>

\* ---------------------------------------------------------------- bounds
MaxNames == 2       \* longest NETWORK_NAMES list
MaxSlot == 4        \* SSID slots of a network are 0..MaxSlot
MaxPrompts == 2     \* index prompts answered in the rotation loop

\* ------------------------------------------------------------- constants
TargetSlot == 3

Unconfigured == <<"U","n","c","o","n","f","i","g","u","r","e","d">>

\* -------------------------------------------------------- Python helpers
\* str.startswith
StartsWith(s, p) == Len(s) >= Len(p) /\ SubSeq(s, 1, Len(p)) = p

LowerChar(c) ==
    CASE c = "N" -> "n"
      [] c = "X" -> "x"
      [] c = "U" -> "u"
      [] OTHER -> c

\* str.lower
Lower(s) == [k \in 1..Len(s) |-> LowerChar(s[k])]

Digits == <<"0","1","2","3","4","5","6","7","8","9">>

IsDigit(c) == \E d \in 1..10 : Digits[d] = c

DigitVal(c) == (CHOOSE d \in 1..10 : Digits[d] = c) - 1

RECURSIVE Strip(_)
\* str.strip, as int() applies it
Strip(s) ==
    IF s # <<>> /\ Head(s) = " " THEN Strip(Tail(s))
    ELSE IF s # <<>> /\ s[Len(s)] = " " THEN Strip(SubSeq(s, 1, Len(s) - 1))
    ELSE s

RECURSIVE DigitsValue(_)
\* value of a digit string with single underscores between digits
DigitsValue(s) ==
    IF s = <<>> THEN 0
    ELSE IF s[Len(s)] = "_" THEN DigitsValue(SubSeq(s, 1, Len(s) - 1))
    ELSE 10 * DigitsValue(SubSeq(s, 1, Len(s) - 1)) + DigitVal(s[Len(s)])

\* int(str): [ok |-> FALSE] stands for ValueError
ParseInt(s) ==
    LET t == Strip(s)
        signed == t # <<>> /\ Head(t) \in {"+", "-"}
        body == IF signed THEN Tail(t) ELSE t
        wellFormed ==
            /\ body # <<>>
            /\ IsDigit(body[1]) /\ IsDigit(body[Len(body)])
            /\ \A k \in 1..Len(body) : IsDigit(body[k]) \/ body[k] = "_"
            /\ \A k \in 1..(Len(body) - 1) : ~(body[k] = "_" /\ body[k + 1] = "_")
    IN IF ~wellFormed THEN [ok |-> FALSE, val |-> 0]
       ELSE [ok |-> TRUE,
             val |-> IF signed /\ Head(t) = "-" THEN 0 - DigitsValue(body)
                     ELSE DigitsValue(body)]

\* list[k] with Python's index rules: InRange is "no IndexError"
InRange(list, k) == (0 - Len(list)) <= k /\ k < Len(list)

PyGet(list, k) == list[IF k >= 0 THEN k + 1 ELSE Len(list) + k + 1]

\* dict operations on a sequence of <<key, value>> items (insertion ordered)
DictKeys(d) == {d[k][1] : k \in 1..Len(d)}

DictGet(d, key) == d[CHOOSE k \in 1..Len(d) : d[k][1] = key][2]

DictSet(d, key, val) ==
    IF key \in DictKeys(d)
    THEN [k \in 1..Len(d) |-> IF d[k][1] = key THEN <<key, val>> ELSE d[k]]
    ELSE Append(d, <<key, val>>)

\* dict.pop(key) leaves the other fields
Pop(d, key) == [f \in DOMAIN d \ {key} |-> d[f]]

\* d[key] = val
SetItem(d, key, val) == [f \in DOMAIN d \cup {key} |-> IF f = key THEN val ELSE d[f]]

Last(s) == s[Len(s)]

\* ------------------------------------------------- the dashboard's data
None == "None"

Slots == 0..MaxSlot

Guest == <<"G","u","e","s","t">>
Staff == <<"S","t","a","f","f">>
Unconf == SubSeq(Unconfigured, 1, 6)
Placeholder == Unconfigured \o <<" ","S","S","I","D">>

\* what getOrganizationNetworks returns
OrgNetworks ==
    << [id |-> "N_1", name |-> "Branch-A", productTypes |-> {"wireless"}],
       [id |-> "N_2", name |-> "Branch-B", productTypes |-> {"appliance", "wireless"}],
       [id |-> "N_3", name |-> "HQ", productTypes |-> {"appliance"}] >>

WirelessIds == {OrgNetworks[k].id : k \in {n \in 1..Len(OrgNetworks) :
                                             "wireless" \in OrgNetworks[n].productTypes}}

NameChoices == {"Branch-A", "Branch-B", "branch-a"}

OpenSsid(name, number) == [name |-> name, number |-> number, authMode |-> "open"]

PskSsid(name, number, psk) ==
    [name |-> name, number |-> number, authMode |-> "psk", psk |-> psk]

TableA ==
    [s \in Slots |->
        CASE s = 0 -> PskSsid(Guest, s, "guest-a")
          [] s = 1 -> OpenSsid(Staff, s)
          [] OTHER -> OpenSsid(Placeholder, s)]

TableB ==
    [s \in Slots |->
        CASE s = 1 -> OpenSsid(Guest, s)
          [] s = 2 -> PskSsid(Unconf, s, "unconf-b")
          [] s = 3 -> PskSsid(Staff, s, "staff-b")
          [] s = 4 -> OpenSsid(Lower(Unconfigured), s)
          [] OTHER -> OpenSsid(IF s = 0 THEN Unconfigured ELSE Placeholder, s)]

Tables == {TableA, TableB}

\* the two wireless networks hold different tables
Servers == {t \in [WirelessIds -> Tables] : t["N_1"] # t["N_2"]}

Ap(net, tags) == [networkId |-> net, tags |-> tags, productType |-> "wireless"]

DevicesX ==
    { Ap("N_1", {Guest, Staff}), Ap("N_2", {Guest}),
      [networkId |-> "N_1", tags |-> {Unconf}, productType |-> "switch"] }

DevicesY ==
    { Ap("N_1", {}), Ap("N_2", {Staff, Unconf, Placeholder}), Ap("N_2", {Staff}) }

DeviceSets == {DevicesX, DevicesY}

Inputs == { <<"n">>, <<"N">>, <<"0">>, <<"1">>, <<"-","1">>, <<"7">>, <<"x">> }

Passwords == {"newpass123"}

\* one dashboard call as logged: kwargs in args
Call(op, net, num, args, ok) ==
    [op |-> op, net |-> net, num |-> num, args |-> args, ok |-> ok]

\* dashboard.wireless.getNetworkWirelessSsids: the slots in number order
GetNetworkWirelessSsids(net_id) == [k \in 1..(MaxSlot + 1) |-> server[net_id][k - 1]]

\* dashboard.organizations.getOrganizationDevices with the filters of lines 102-107
GetOrganizationDevices(net_id, tag) ==
    {d \in devices : /\ d.networkId = net_id
                     /\ tag \in d.tags
                     /\ d.productType = "wireless"}

\* server side of updateNetworkWirelessSsid: the fields given are merged in
Merge(old, new) ==
    [f \in DOMAIN old \cup DOMAIN new |-> IF f \in DOMAIN new THEN new[f] ELSE old[f]]

UpdateNetworkWirelessSsid(net_id, number, args) ==
    [server EXCEPT ![net_id][number] = Merge(@, args)]

Init ==
    /\ NET_NAMES \in UNION {[1..n -> NameChoices] : n \in 0..MaxNames}
    /\ devices \in DeviceSets
    /\ server \in Servers
    /\ pc = "resolve"
    /\ i = 1
    /\ net_id_to_name = <<>>
    /\ wireless_networks = <<>>
    /\ all_ssids = <<>>
    /\ ssid_dict = <<>>
    /\ network_to_ssids = <<>>
    /\ todo = {}
    /\ psk_ssids = <<>>
    /\ ssid_index = <<>>
    /\ ssid_int = 0
    /\ new_psk = ""
    /\ prompts = 0
    /\ calls = <<>>
    /\ out = <<>>

\* ------------------------------------------------------ step 2: resolve
\* get_network_id after the listing: the first network with exactly that name
GetNetworkId(networks, net_name) ==
    IF \E k \in 1..Len(networks) : networks[k].name = net_name
    THEN networks[CHOOSE k \in 1..Len(networks) :
                    /\ networks[k].name = net_name
                    /\ \A j \in 1..(k - 1) : networks[j].name # net_name].id
    ELSE None

\* ResolveStep with the return of line 190 left out: the loop goes on to the
\* next name after reporting the unresolved one
ResolveStepNoReturn ==
    /\ pc = "resolve"
    /\ UNCHANGED <<NET_NAMES, devices, server, wireless_networks, all_ssids, ssid_dict,
                   network_to_ssids, todo, psk_ssids, ssid_index, ssid_int, new_psk,
                   prompts>>
    /\ IF i > Len(NET_NAMES)
       THEN /\ pc' = "wireless"
            /\ UNCHANGED <<i, net_id_to_name, calls, out>>
       ELSE \E ok \in BOOLEAN :
            LET network == NET_NAMES[i]
                net_id == GetNetworkId(OrgNetworks, network)
            IN /\ calls' = Append(calls, Call("getOrganizationNetworks", "", 0, <<>>, ok))
               /\ IF ~ok
                  THEN /\ pc' = "crashed"
                       /\ UNCHANGED <<i, net_id_to_name, out>>
                  ELSE IF net_id = None
                  THEN /\ out' = Append(out, <<"not_found", network>>)
                       /\ i' = i + 1
                       /\ UNCHANGED <<pc, net_id_to_name>>
                  ELSE /\ net_id_to_name' = DictSet(net_id_to_name, net_id, network)
                       /\ i' = i + 1
                       /\ UNCHANGED <<pc, out>>

\* one turn of the loop of lines 183-192
ResolveStep ==
    /\ pc = "resolve"
    /\ UNCHANGED <<NET_NAMES, devices, server, wireless_networks, all_ssids, ssid_dict,
                   network_to_ssids, todo, psk_ssids, ssid_index, ssid_int, new_psk,
                   prompts>>
    /\ IF i > Len(NET_NAMES)
       THEN /\ pc' = "wireless"
            /\ UNCHANGED <<i, net_id_to_name, calls, out>>
       ELSE \E ok \in BOOLEAN :
            LET network == NET_NAMES[i]
                net_id == GetNetworkId(OrgNetworks, network)
            IN /\ calls' = Append(calls, Call("getOrganizationNetworks", "", 0, <<>>, ok))
               /\ IF ~ok
                  THEN /\ pc' = "crashed"
                       /\ UNCHANGED <<i, net_id_to_name, out>>
                  ELSE IF net_id = None
                  THEN /\ out' = Append(out, <<"not_found", network>>)
                       /\ pc' = "aborted"
                       /\ UNCHANGED <<i, net_id_to_name>>
                  ELSE /\ net_id_to_name' = DictSet(net_id_to_name, net_id, network)
                       /\ i' = i + 1
                       /\ UNCHANGED <<pc, out>>

\* ------------------------------------------------- step 3: wireless nets
WirelessOf(networks) == SelectSeq(networks, LAMBDA n : "wireless" \in n.productTypes)

GetWirelessNetworks ==
    /\ pc = "wireless"
    /\ UNCHANGED <<NET_NAMES, devices, server, i, net_id_to_name, all_ssids, ssid_dict,
                   network_to_ssids, todo, psk_ssids, ssid_index, ssid_int, new_psk,
                   prompts, out>>
    /\ \E ok \in BOOLEAN :
        /\ calls' = Append(calls, Call("getOrganizationNetworks", "", 0, <<>>, ok))
        /\ IF ok
           THEN /\ wireless_networks' = WirelessOf(OrgNetworks)
                /\ pc' = "catalog"
           ELSE /\ pc' = "crashed"
                /\ UNCHANGED wireless_networks

\* ------------------------------------------------------ step 4: catalog
\* line 69: the SSIDs get_all_ssids keeps
KeepSsid(ssid) == ~StartsWith(ssid.name, Unconfigured)

RECURSIVE FetchAll(_, _)
\* all_ssids after the loop of lines 65-72 ran over the first n networks
FetchAll(networks, n) ==
    IF n = 0 THEN <<>>
    ELSE FetchAll(networks, n - 1)
         \o SelectSeq(GetNetworkWirelessSsids(networks[n].id), KeepSsid)

\* the calls of a loop that issues call[1], call[2], ... and stops at the first
\* that raises: done of them succeed, and the next one, if any, fails
CallsUntilFailure(call, total, done) ==
    [k \in 1..(IF done < total THEN done + 1 ELSE total) |->
        [call[k] EXCEPT !.ok = (k <= done)]]

\* GetAllSsids with a try/except around line 67 that skips the failed network
GetAllSsidsSkipFailed ==
    /\ pc = "catalog"
    /\ UNCHANGED <<NET_NAMES, devices, server, i, net_id_to_name, wireless_networks,
                   ssid_dict, network_to_ssids, todo, psk_ssids, ssid_index, ssid_int,
                   new_psk, prompts, out>>
    /\ \E fetched \in [1..Len(wireless_networks) -> BOOLEAN] :
        LET total == Len(wireless_networks)
            good == SelectSeq([k \in 1..total |-> k], LAMBDA k : fetched[k])
        IN /\ calls' = calls \o [k \in 1..total |->
                            Call("getNetworkWirelessSsids", wireless_networks[k].id, 0,
                                 <<>>, fetched[k])]
           /\ all_ssids' = FetchAll([k \in 1..Len(good) |-> wireless_networks[good[k]]],
                                    Len(good))
           /\ pc' = "dict"

\* get_all_ssids: the fetch of any network may raise, which ends main()
GetAllSsids ==
    /\ pc = "catalog"
    /\ UNCHANGED <<NET_NAMES, devices, server, i, net_id_to_name, wireless_networks,
                   ssid_dict, network_to_ssids, todo, psk_ssids, ssid_index, ssid_int,
                   new_psk, prompts, out>>
    /\ \E done \in 0..Len(wireless_networks) :
        LET total == Len(wireless_networks)
            call == [k \in 1..total |->
                        Call("getNetworkWirelessSsids", wireless_networks[k].id, 0,
                             <<>>, TRUE)]
        IN /\ calls' = calls \o CallsUntilFailure(call, total, done)
           /\ IF done = total
              THEN /\ all_ssids' = FetchAll(wireless_networks, total)
                   /\ pc' = "dict"
              ELSE /\ pc' = "crashed"
                   /\ UNCHANGED all_ssids

RECURSIVE SsidDictFirstWins(_, _)
\* SsidDictOf guarded by "if name not in ssid_dict": the first record is kept
SsidDictFirstWins(ssids, n) ==
    IF n = 0 THEN <<>>
    ELSE LET d == SsidDictFirstWins(ssids, n - 1)
         IN IF ssids[n].name \in DictKeys(d) THEN d ELSE Append(d, <<ssids[n].name, n>>)

RECURSIVE SsidDictOf(_, _)
\* ssid_dict after the loop of lines 83-85 ran over the first n SSIDs; the value
\* kept is the list position, for the dict holds the list's own objects
SsidDictOf(ssids, n) ==
    IF n = 0 THEN <<>>
    ELSE DictSet(SsidDictOf(ssids, n - 1), ssids[n].name, n)

\* make_ssid_dict
MakeSsidDict ==
    /\ pc = "dict"
    /\ ssid_dict' = SsidDictOf(all_ssids, Len(all_ssids))
    /\ pc' = "match"
    /\ i' = 1
    /\ UNCHANGED <<NET_NAMES, devices, server, net_id_to_name, wireless_networks,
                   all_ssids, network_to_ssids, todo, psk_ssids, ssid_index, ssid_int,
                   new_psk, prompts, calls, out>>

\* ------------------------------------------------- step 5: tag matching
\* network_ssids when get_ap_ssids returns: a tag is added once per AP found
NetworkSsids(net_id, ssids) ==
    {ssids[k].name : k \in {n \in 1..Len(ssids) :
                              GetOrganizationDevices(net_id, ssids[n].name) # {}}}

\* one turn of the loop of lines 210-211: get_ap_ssids for one target network
GetApSsids ==
    /\ pc = "match"
    /\ UNCHANGED <<NET_NAMES, devices, server, net_id_to_name, wireless_networks,
                   all_ssids, ssid_dict, psk_ssids, ssid_index, ssid_int, new_psk,
                   prompts, out>>
    /\ IF i > Len(net_id_to_name)
       THEN /\ pc' = "configure"
            /\ i' = 1
            /\ todo' = {}
            /\ UNCHANGED <<network_to_ssids, calls>>
       ELSE \E done \in 0..Len(all_ssids) :
            LET net_id == net_id_to_name[i][1]
                total == Len(all_ssids)
                call == [k \in 1..total |->
                            Call("getOrganizationDevices", net_id, 0,
                                 [tags |-> <<all_ssids[k].name>>], TRUE)]
            IN /\ calls' = calls \o CallsUntilFailure(call, total, done)
               /\ UNCHANGED todo
               /\ IF done = total
                  THEN /\ network_to_ssids' =
                            DictSet(network_to_ssids, net_id,
                                    NetworkSsids(net_id, all_ssids))
                       /\ i' = i + 1
                       /\ UNCHANGED pc
                  ELSE /\ pc' = "crashed"
                       /\ UNCHANGED <<i, network_to_ssids>>

\* --------------------------------------------------- step 6: configure
\* AssignNumber as ssid_config.setdefault("number", 3): a number already in the
\* record is kept
AssignNumberDefault(ssid_config) ==
    IF "number" \in DOMAIN ssid_config THEN ssid_config
    ELSE SetItem(ssid_config, "number", TargetSlot)

\* line 120
AssignNumber(ssid_config) == SetItem(ssid_config, "number", TargetSlot)

\* Payload read with ssid_config["number"] instead of pop: the field stays
PayloadKeepsNumber(ssid_config) == ssid_config

\* line 121: what is left of ssid_config once "number" is popped
Payload(ssid_config) == Pop(ssid_config, "number")

\* head of the loop of line 223: enter the next target network, or leave
ConfigureNet ==
    /\ pc = "configure"
    /\ todo = {}
    /\ UNCHANGED <<NET_NAMES, devices, server, net_id_to_name, wireless_networks,
                   all_ssids, ssid_dict, network_to_ssids, psk_ssids, ssid_index,
                   ssid_int, new_psk, prompts, calls>>
    /\ IF i > Len(network_to_ssids)
       THEN /\ pc' = "psklist"
            /\ i' = 1
            /\ UNCHANGED <<todo, out>>
       ELSE /\ todo' = network_to_ssids[i][2]
            /\ i' = i + 1
            /\ out' = Append(out, <<"configuring",
                                    DictGet(net_id_to_name, network_to_ssids[i][1])>>)
            /\ UNCHANGED pc

\* ConfigureSsid without the try/except of lines 122-130: the exception of the
\* update call ends main()
ConfigureSsidNoCatch ==
    /\ pc = "configure"
    /\ todo # {}
    /\ UNCHANGED <<NET_NAMES, devices, i, net_id_to_name, wireless_networks,
                   ssid_dict, network_to_ssids, psk_ssids, ssid_index, ssid_int,
                   new_psk, prompts>>
    /\ \E ssid_name \in todo, ok \in BOOLEAN :
        LET net_id == network_to_ssids[i - 1][1]
            net_name == DictGet(net_id_to_name, net_id)
            ref == DictGet(ssid_dict, ssid_name)
            numbered == AssignNumber(all_ssids[ref])
            ssid_num == numbered["number"]
            ssid_config == Payload(numbered)
        IN /\ all_ssids' = [all_ssids EXCEPT ![ref] = ssid_config]
           /\ calls' = Append(calls, Call("updateNetworkWirelessSsid", net_id,
                                          ssid_num, ssid_config, ok))
           /\ IF ok
              THEN /\ server' = UpdateNetworkWirelessSsid(net_id, ssid_num, ssid_config)
                   /\ out' = Append(out, <<"configured", net_name, ssid_name>>)
                   /\ todo' = todo \ {ssid_name}
                   /\ UNCHANGED pc
              ELSE /\ pc' = "crashed"
                   /\ UNCHANGED <<server, out, todo>>

\* one turn of the loop of lines 225-233 with configure_net_ssids: the set is
\* iterated in an order the program does not choose
ConfigureSsid ==
    /\ pc = "configure"
    /\ todo # {}
    /\ UNCHANGED <<NET_NAMES, devices, pc, i, net_id_to_name, wireless_networks,
                   ssid_dict, network_to_ssids, psk_ssids, ssid_index, ssid_int,
                   new_psk, prompts>>
    /\ \E ssid_name \in todo, ok \in BOOLEAN :
        LET net_id == network_to_ssids[i - 1][1]
            net_name == DictGet(net_id_to_name, net_id)
            ref == DictGet(ssid_dict, ssid_name)
            numbered == AssignNumber(all_ssids[ref])
            ssid_num == numbered["number"]
            ssid_config == Payload(numbered)
        IN /\ all_ssids' = [all_ssids EXCEPT ![ref] = ssid_config]
           /\ calls' = Append(calls, Call("updateNetworkWirelessSsid", net_id,
                                          ssid_num, ssid_config, ok))
           /\ todo' = todo \ {ssid_name}
           /\ IF ok
              THEN /\ server' = UpdateNetworkWirelessSsid(net_id, ssid_num, ssid_config)
                   /\ out' = Append(out, <<"configured", net_name, ssid_name>>)
              ELSE /\ out' = out \o << <<"exception", ssid_config["name"]>>,
                                       <<"issue", net_name, ssid_name>> >>
                   /\ UNCHANGED server

\* ---------------------------------------------------- step 7: PSK list
\* lines 140-147 over the SSIDs fetched for net_id
PskEntries(ssids, net_id) ==
    LET IsPsk(ssid) == ssid["authMode"] = "psk"
        psk == SelectSeq(ssids, IsPsk)
    IN [k \in 1..Len(psk) |->
           [name |-> psk[k]["name"], number |-> psk[k]["number"], net_id |-> net_id]]

\* one turn of the loop of lines 238-239: get_psk_net_ssids for one network
GetPskNetSsids ==
    /\ pc = "psklist"
    /\ UNCHANGED <<NET_NAMES, devices, server, net_id_to_name, wireless_networks,
                   all_ssids, ssid_dict, network_to_ssids, todo, ssid_index, ssid_int,
                   new_psk, prompts, out>>
    /\ IF i > Len(network_to_ssids)
       THEN /\ pc' = "print"
            /\ UNCHANGED <<i, psk_ssids, calls>>
       ELSE \E ok \in BOOLEAN :
            LET net_id == network_to_ssids[i][1]
            IN /\ calls' = Append(calls, Call("getNetworkWirelessSsids", net_id, 0,
                                              <<>>, ok))
               /\ IF ok
                  THEN /\ psk_ssids' = psk_ssids
                                \o PskEntries(GetNetworkWirelessSsids(net_id), net_id)
                       /\ i' = i + 1
                       /\ UNCHANGED pc
                  ELSE /\ pc' = "crashed"
                       /\ UNCHANGED <<i, psk_ssids>>

\* ListIndex looking the entry up by its name only
ListIndexByName(list, x) ==
    (CHOOSE k \in 1..Len(list) :
        /\ list[k].name = x.name
        /\ \A j \in 1..(k - 1) : list[j].name # x.name) - 1

\* list.index(x): 0-based position of the first element equal to x
ListIndex(list, x) ==
    (CHOOSE k \in 1..Len(list) :
        /\ list[k] = x
        /\ \A j \in 1..(k - 1) : list[j] # x) - 1

\* the loop of lines 241-244
PrintListing ==
    /\ pc = "print"
    /\ out' = out \o [k \in 1..Len(psk_ssids) |->
                        <<"listing", ListIndex(psk_ssids, psk_ssids[k]),
                          psk_ssids[k].name,
                          DictGet(net_id_to_name, psk_ssids[k].net_id)>>]
    /\ pc' = "input"
    /\ UNCHANGED <<NET_NAMES, devices, server, i, net_id_to_name, wireless_networks,
                   all_ssids, ssid_dict, network_to_ssids, todo, psk_ssids, ssid_index,
                   ssid_int, new_psk, prompts, calls>>

\* ------------------------------------------------ step 7: rotation loop
\* input() of lines 247 and 261
ReadIndex ==
    /\ pc = "input"
    /\ prompts < MaxPrompts
    /\ \E line \in Inputs : ssid_index' = line
    /\ prompts' = prompts + 1
    /\ pc' = "loop"
    /\ UNCHANGED <<NET_NAMES, devices, server, i, net_id_to_name, wireless_networks,
                   all_ssids, ssid_dict, network_to_ssids, todo, psk_ssids, ssid_int,
                   new_psk, calls, out>>

\* LoopContinues without .lower()
LoopContinuesCaseSensitive(line) == line # <<"n">>

\* the while condition of line 248
LoopContinues(line) == Lower(line) # <<"n">>

\* lines 248-253: the loop test, int() and the three list lookups
SelectSsid ==
    /\ pc = "loop"
    /\ UNCHANGED <<NET_NAMES, devices, server, i, net_id_to_name, wireless_networks,
                   all_ssids, ssid_dict, network_to_ssids, todo, psk_ssids, ssid_index,
                   new_psk, prompts, calls, out>>
    /\ IF ~LoopContinues(ssid_index)
       THEN /\ pc' = "done"
            /\ UNCHANGED ssid_int
       ELSE LET parsed == ParseInt(ssid_index)
            IN IF parsed.ok /\ InRange(psk_ssids, parsed.val)
               THEN /\ ssid_int' = parsed.val
                    /\ pc' = "password"
               ELSE /\ pc' = "crashed"      \* ValueError or IndexError
                    /\ UNCHANGED ssid_int

\* lines 254-259 with change_ssid_psk
ChangeSsidPsk ==
    /\ pc = "password"
    /\ UNCHANGED <<NET_NAMES, devices, i, net_id_to_name, wireless_networks, all_ssids,
                   ssid_dict, network_to_ssids, todo, psk_ssids, ssid_index, ssid_int,
                   prompts>>
    /\ \E line \in Passwords, ok \in BOOLEAN :
        LET ssid_num == PyGet(psk_ssids, ssid_int)["number"]
            ssid_name == PyGet(psk_ssids, ssid_int)["name"]
            net_id == PyGet(psk_ssids, ssid_int)["net_id"]
            net_name == DictGet(net_id_to_name, net_id)
            args == [authMode |-> "psk", psk |-> line]
        IN /\ new_psk' = line
           /\ calls' = Append(calls, Call("updateNetworkWirelessSsid", net_id,
                                          ssid_num, args, ok))
           /\ IF ok
              THEN /\ server' = UpdateNetworkWirelessSsid(net_id, ssid_num, args)
                   /\ out' = Append(out, <<"new_psk", ssid_name, net_name>>)
              ELSE /\ out' = out \o << <<"exception", ssid_name>>,
                                       <<"psk_issue", ssid_name, net_name>> >>
                   /\ UNCHANGED server
           /\ pc' = "input"

Next ==
    \/ ResolveStep
    \/ GetWirelessNetworks
    \/ GetAllSsids
    \/ MakeSsidDict
    \/ GetApSsids
    \/ ConfigureNet
    \/ ConfigureSsid
    \/ GetPskNetSsids
    \/ PrintListing
    \/ ReadIndex
    \/ SelectSsid
    \/ ChangeSsidPsk

Spec == Init /\ [][Next]_vars

\* ================================================================ claims
Resolves(net_name) == \E n \in 1..Len(OrgNetworks) : OrgNetworks[n].name = net_name

\* the first configured name no network is called
FirstUnresolved ==
    NET_NAMES[CHOOSE k \in 1..Len(NET_NAMES) :
                /\ ~Resolves(NET_NAMES[k])
                /\ \A j \in 1..(k - 1) : Resolves(NET_NAMES[j])]

\* update calls of the configuration step carry a whole SSID record
IsConfigCall(c) == c.op = "updateNetworkWirelessSsid" /\ "name" \in DOMAIN c.args

\* update calls of the rotation loop carry authMode and psk only
IsPskCall(c) == c.op = "updateNetworkWirelessSsid" /\ "name" \notin DOMAIN c.args

\* C1: when some configured name has no network of exactly that name, the run
\* never gets past resolution: the only dashboard calls ever issued are
\* organization-network listings, and when it stops for the unresolved name it
\* has printed that name last, even if earlier names resolved.
C1_AbortsBeforeAnySsidCall ==
    (\E k \in 1..Len(NET_NAMES) : ~Resolves(NET_NAMES[k])) =>
        /\ \A c \in 1..Len(calls) : calls[c].op = "getOrganizationNetworks"
        /\ pc \in {"resolve", "aborted", "crashed"}
        /\ pc = "aborted" => /\ out = << <<"not_found", FirstUnresolved>> >>
                             /\ \A c \in 1..Len(calls) : calls[c].ok

\* an abort on the second name, after the first one resolved
C1_Witness ==
    /\ pc = "aborted"
    /\ Len(net_id_to_name) = 1
    /\ Len(calls) = 2

\* C2: every update call of the configuration step names slot 3 and carries the
\* catalog record of the applied SSID, as it was before the call, less "number".
C2_ConfigTargetsSlot3 ==
    [][(pc = "configure" /\ calls' # calls) =>
        LET c == Last(calls')
        IN /\ Len(calls') = Len(calls) + 1
           /\ c.op = "updateNetworkWirelessSsid"
           /\ c.num = 3
           /\ "number" \notin DOMAIN c.args
           /\ \E name \in todo :
                LET record == all_ssids[DictGet(ssid_dict, name)]
                IN /\ record["name"] = name
                   /\ DOMAIN c.args = DOMAIN record \ {"number"}
                   /\ \A f \in DOMAIN c.args : c.args[f] = record[f]]_vars

\* a record fetched from a slot other than 3 went out to slot 3
C2_Witness ==
    \E c \in 1..Len(calls) :
        /\ IsConfigCall(calls[c])
        /\ calls[c].num = 3
        /\ \E w \in WirelessIds, s \in Slots \ {3} :
              /\ server[w][s]["name"] = calls[c].args["name"]
              /\ \A f \in DOMAIN calls[c].args : server[w][s][f] = calls[c].args[f]

\* the update calls made for network net_id with the record called name
AttemptsFor(net_id, name) ==
    {c \in 1..Len(calls) : /\ IsConfigCall(calls[c])
                           /\ calls[c].net = net_id
                           /\ calls[c].args["name"] = name}

\* C3: a failed update makes configure_net_ssids return False (the caller
\* prints its "issue" line) and the loop goes on: the step never ends the run,
\* and when it hands over to the PSK step every (target network, matched
\* name) has had exactly one update attempt and nothing else was attempted.
C3_ConfigFailureDoesNotAbort ==
    [][pc = "configure" =>
        /\ pc' \in {"configure", "psklist"}
        /\ calls' # calls =>
              (Last(out')[1] = "issue") = (~Last(calls').ok)
        /\ pc' = "psklist" =>
              /\ \A k \in 1..Len(network_to_ssids) :
                    \A name \in network_to_ssids[k][2] :
                        Cardinality(AttemptsFor(network_to_ssids[k][1], name)) = 1
              /\ \A c \in 1..Len(calls) :
                    calls[c].op = "updateNetworkWirelessSsid" =>
                        \E k \in 1..Len(network_to_ssids) :
                            /\ calls[c].net = network_to_ssids[k][1]
                            /\ calls[c].args["name"] \in network_to_ssids[k][2]]_vars

\* the PSK step was reached although an update failed before a later attempt
C3_Witness ==
    /\ pc = "psklist"
    /\ \E a, b \in 1..Len(calls) :
          /\ a < b
          /\ IsConfigCall(calls[a]) /\ ~calls[a].ok
          /\ IsConfigCall(calls[b])

\* position of a network among the targets, in iteration order
TargetPos(net_id) == CHOOSE k \in 1..Len(network_to_ssids) : network_to_ssids[k][1] = net_id

\* the lines of the PSK menu, in the order printed
Listing == SelectSeq(out, LAMBDA o : o[1] = "listing")

\* C4: once the menu is printed, psk_ssids holds exactly the slots of the target
\* networks whose authMode is "psk", each once, ordered by target network and
\* then by position in the network's SSID list, and the k-th menu line shows
\* k-1, the name of the k-th entry and the name of its network: the number
\* shown is the one that selects that entry in the loop.
C4_PskListingIndexed ==
    pc \in {"input", "loop", "password", "done"} =>
        /\ \A k \in 1..Len(psk_ssids) :
              LET e == psk_ssids[k]
              IN /\ e.net_id \in DictKeys(network_to_ssids)
                 /\ server[e.net_id][e.number]["authMode"] = "psk"
                 /\ server[e.net_id][e.number]["name"] = e.name
        /\ \A n \in DictKeys(network_to_ssids), s \in Slots :
              server[n][s]["authMode"] = "psk" =>
                  Cardinality({k \in 1..Len(psk_ssids) :
                                  /\ psk_ssids[k].net_id = n
                                  /\ psk_ssids[k].number = s}) = 1
        /\ \A a, b \in 1..Len(psk_ssids) :
              a < b =>
                  \/ TargetPos(psk_ssids[a].net_id) < TargetPos(psk_ssids[b].net_id)
                  \/ /\ psk_ssids[a].net_id = psk_ssids[b].net_id
                     /\ psk_ssids[a].number < psk_ssids[b].number
        /\ Len(Listing) = Len(psk_ssids)
        /\ \A k \in 1..Len(psk_ssids) :
              /\ Listing[k][2] = k - 1
              /\ Listing[k][3] = psk_ssids[k].name
              /\ Listing[k][4] = DictGet(net_id_to_name, psk_ssids[k].net_id)
              /\ PyGet(psk_ssids, Listing[k][2]) = psk_ssids[k]

\* a menu over two networks in which two entries carry the same name
C4_Witness ==
    /\ pc = "input"
    /\ Len(Listing) >= 3
    /\ \E a, b \in 1..Len(psk_ssids) :
          /\ a < b
          /\ psk_ssids[a].name = psk_ssids[b].name
          /\ psk_ssids[a].net_id = psk_ssids[b].net_id
    /\ \E a, b \in 1..Len(psk_ssids) : psk_ssids[a].net_id # psk_ssids[b].net_id

\* C5: in the rotation loop the test of the line read issues no call and ends
\* in DONE exactly when the line, lower-cased, is "n"; a line that is the
\* decimal of an index i with 0 <= i < len(psk_ssids) leads to the password
\* prompt for entry i; the password p read there is sent in exactly one update
\* call, to the network and SSID number of entry i with authMode "psk" and
\* psk p, and, failed or not, the loop is back at the prompt; DONE is final.
C5_RotationLoop ==
    [][/\ pc = "loop" =>
            /\ calls' = calls
            /\ (pc' = "done") = (Lower(ssid_index) = <<"n">>)
            /\ \A k \in 0..(Len(psk_ssids) - 1) :
                  (ParseInt(ssid_index).ok /\ ParseInt(ssid_index).val = k) =>
                      (pc' = "password" /\ ssid_int' = k)
       /\ (pc = "password" /\ ssid_int >= 0) =>
            /\ Len(calls') = Len(calls) + 1
            /\ SubSeq(calls', 1, Len(calls)) = calls
            /\ Last(calls').op = "updateNetworkWirelessSsid"
            /\ Last(calls').net = psk_ssids[ssid_int + 1].net_id
            /\ Last(calls').num = psk_ssids[ssid_int + 1].number
            /\ DOMAIN Last(calls').args = {"authMode", "psk"}
            /\ Last(calls').args["authMode"] = "psk"
            /\ Last(calls').args["psk"] = new_psk'
            /\ pc' = "input"
       /\ pc # "done"]_vars

\* DONE after "N", reached after a failed update of entry 1
C5_Witness ==
    /\ pc = "done"
    /\ ssid_index = <<"N">>
    /\ ssid_int = 1
    /\ IsPskCall(Last(calls)) /\ ~Last(calls).ok
    /\ Last(calls).num = psk_ssids[2].number

\* the SSIDs fetched for the catalog, as <<network position, slot>>
Fetched == (1..Len(wireless_networks)) \X Slots

FetchedSsid(ws) == server[wireless_networks[ws[1]].id][ws[2]]

\* C6: the catalog built from the wireless networks has no name starting with
\* "Unconfigured", has every other fetched name, each under one key only, and
\* keeps for a name the record of the last network (and last slot in it)
\* carrying that name; the configurator sends the kept record.
C6_CatalogContents ==
    /\ pc = "match" =>
        /\ \A name \in DictKeys(ssid_dict) : ~StartsWith(name, Unconfigured)
        /\ DictKeys(ssid_dict) =
              {FetchedSsid(ws)["name"] : ws \in Fetched}
                  \ {name \in {FetchedSsid(ws)["name"] : ws \in Fetched} :
                        StartsWith(name, Unconfigured)}
        /\ \A a, b \in 1..Len(ssid_dict) : ssid_dict[a][1] = ssid_dict[b][1] => a = b
        /\ \A name \in DictKeys(ssid_dict) :
              \E ws \in Fetched :
                  /\ FetchedSsid(ws)["name"] = name
                  /\ all_ssids[DictGet(ssid_dict, name)] = FetchedSsid(ws)
                  /\ \A other \in Fetched :
                        FetchedSsid(other)["name"] = name =>
                            \/ other[1] < ws[1]
                            \/ other[1] = ws[1] /\ other[2] <= ws[2]
    /\ \A c \in 1..Len(calls) :
          IsConfigCall(calls[c]) =>
              calls[c].args =
                  Pop(all_ssids[DictGet(ssid_dict, calls[c].args["name"])], "number")

\* a catalog built over two networks that both define "Guest", differently,
\* and that fetched placeholder slots
C6_Witness ==
    /\ pc = "match"
    /\ \E a, b \in Fetched :
          /\ a[1] < b[1]
          /\ FetchedSsid(a)["name"] = Guest /\ FetchedSsid(b)["name"] = Guest
          /\ FetchedSsid(a)["authMode"] # FetchedSsid(b)["authMode"]
    /\ \E ws \in Fetched : StartsWith(FetchedSsid(ws)["name"], Unconfigured)
    /\ Unconf \in DictKeys(ssid_dict)

ReadOps == {"getOrganizationNetworks", "getNetworkWirelessSsids", "getOrganizationDevices"}

\* this step issued dashboard calls and the last of them raised
CallFailed == calls' # calls /\ ~Last(calls').ok

\* C7 as stated: a failed call of the catalog build, of the tag matching or of
\* the PSK listing leaves the run going.
C7_BatchStepsIsolateFailures ==
    [][(CallFailed /\ pc \in {"catalog", "match", "psklist"}) =>
            pc' \in {"dict", "match", "configure", "psklist", "print"}]_vars

\* C7 amended: only the two update calls are isolated.  A failed listing,
\* SSID fetch or device query, in whichever step, ends the run at once (no
\* step follows a crash or an abort), while a failed update keeps the run in
\* the configuration step or returns it to the prompt.
C7_OnlyUpdatesIsolateFailures ==
    [][/\ (CallFailed /\ Last(calls').op \in ReadOps) => pc' = "crashed"
       /\ (CallFailed /\ Last(calls').op = "updateNetworkWirelessSsid") =>
              \/ pc = "configure" /\ pc' = "configure"
              \/ pc = "password" /\ pc' = "input"
       /\ pc \notin {"crashed", "aborted"}]_vars

\* a crash on the device query of the second catalog SSID, the first answered
C7_Witness ==
    /\ pc = "crashed"
    /\ Len(calls) >= 2
    /\ Last(calls).op = "getOrganizationDevices" /\ ~Last(calls).ok
    /\ calls[Len(calls) - 1].op = "getOrganizationDevices"
    /\ Len(network_to_ssids) < Len(net_id_to_name)

\* what the claim calls an invalid line for the current menu
InvalidLine ==
    /\ Lower(ssid_index) # <<"n">>
    /\ ~(/\ ParseInt(ssid_index).ok
         /\ 0 <= ParseInt(ssid_index).val
         /\ ParseInt(ssid_index).val < Len(psk_ssids))

\* C8 as stated: a line that is neither n/N nor the decimal of an index in
\* 0..len-1 ends the program there, with no password prompt and no call.
C8_InvalidInputIsFatal ==
    [][(pc = "loop" /\ InvalidLine) => (pc' = "crashed" /\ calls' = calls)]_vars

\* C9 as stated: from the configuration step on, the fetched SSID list, the
\* catalog and the matched sets are only read.
C9_CatalogIsReadOnly ==
    [][(pc \in {"configure", "psklist", "print", "input", "loop", "password"}) =>
            (/\ all_ssids' = all_ssids
             /\ ssid_dict' = ssid_dict
             /\ network_to_ssids' = network_to_ssids)]_vars

\* the update calls made for network net_id, by position in calls
UpdatesOf(net_id) ==
    {c \in 1..Len(calls) : IsConfigCall(calls[c]) /\ calls[c].net = net_id}

\* C10: at the end of the configuration step, a target network with k >= 2
\* matched names whose updates all succeeded has had all k written to slot 3:
\* slot 3 holds every field of the last payload sent, none of the other k-1
\* names is in it, and each of the k was printed as configured.
C10_LastAppliedWins ==
    pc = "psklist" =>
        \A k \in 1..Len(network_to_ssids) :
            LET net_id == network_to_ssids[k][1]
                names == network_to_ssids[k][2]
                made == UpdatesOf(net_id)
                last == CHOOSE c \in made : \A d \in made : d <= c
            IN (Cardinality(names) >= 2 /\ \A c \in made : calls[c].ok) =>
                  /\ Cardinality(made) = Cardinality(names)
                  /\ \A c \in made : calls[c].num = 3
                  /\ \A f \in DOMAIN calls[last].args :
                        server[net_id][3][f] = calls[last].args[f]
                  /\ \A name \in names \ {calls[last].args["name"]} :
                        server[net_id][3]["name"] # name
                  /\ \A name \in names :
                        \E o \in 1..Len(out) :
                            /\ out[o][1] = "configured"
                            /\ out[o][2] = DictGet(net_id_to_name, net_id)
                            /\ out[o][3] = name

\* two names applied with success to one network, either of them last
C10_Witness ==
    /\ pc = "psklist"
    /\ \E k \in 1..Len(network_to_ssids) :
          /\ Cardinality(network_to_ssids[k][2]) = 2
          /\ \A c \in UpdatesOf(network_to_ssids[k][1]) : calls[c].ok
          /\ server[network_to_ssids[k][1]][3]["name"] = Guest
          /\ Staff \in network_to_ssids[k][2]

====
